---- MODULE Spec2Model ----
(***************************************************************************)
(* The transaction object of src/transaction/transaction.rs: its mutation  *)
(* buffer (a BTreeMap<Key, Mutation>), the buffer-over-snapshot reads      *)
(* (get, batch_get) and the control flow of commit.                        *)
(*                                                                         *)
(* Keys are 1..NumKeys, ordered by <, standing for byte strings in         *)
(* byte-lexicographic order; values are 1..NumValues.  Option<T> is a      *)
(* sequence of length at most one: None is <<>>, Some(x) is <<x>>.         *)
(***************************************************************************)
EXTENDS Integers, Sequences, FiniteSets, TLC

\* Bounds of the model.
NumKeys == 3
NumValues == 2
MaxBatch == 2

Keys == 1..NumKeys
Values == 1..NumValues

None == <<>>
Some(x) == <<x>>
OptionValue == {None} \cup {Some(v) : v \in Values}

\* Key lists handed to lock_keys and batch_get (duplicates allowed).
KeySeqs == UNION {[1..n -> Keys] : n \in 0..MaxBatch}

(***************************************************************************)
(* Mutation and MutationValue (crate::transaction).                        *)
(***************************************************************************)
Put(v) == [type |-> "Put", value |-> Some(v)]
Del == [type |-> "Del", value |-> None]
Lock == [type |-> "Lock", value |-> None]
Mutation == {Put(v) : v \in Values} \cup {Del, Lock}

Determined(value) == [determined |-> TRUE, value |-> value]
Undetermined == [determined |-> FALSE, value |-> None]

\* Mutation::get_value: what a read sees of a buffered mutation.
get_value(mutation) ==
    CASE mutation.type = "Put" -> Determined(mutation.value)
      [] mutation.type = "Del" -> Determined(None)
      [] mutation.type = "Lock" -> Undetermined

(***************************************************************************)
(* BTreeMap<Key, Mutation>: a sequence of entries in ascending key order   *)
(* with no key twice.                                                      *)
(***************************************************************************)
Entry(k, m) == [key |-> k, mutation |-> m]

KeysOf(map) == {map[i].key : i \in DOMAIN map}

\* BTreeMap::get
BTreeMapGet(map, k) ==
    LET hits == {i \in DOMAIN map : map[i].key = k}
    IN  IF hits = {} THEN None ELSE Some(map[CHOOSE i \in hits : TRUE].mutation)

\* A map insert that keeps the old entry and adds a second one for the key.
BTreeMapInsertKeepOld(map, k, m) ==
    LET lo == SelectSeq(map, LAMBDA e : e.key <= k)
        hi == SelectSeq(map, LAMBDA e : e.key > k)
    IN  lo \o <<Entry(k, m)>> \o hi

\* A map insert that keeps the entries in insertion order.
BTreeMapInsertAppend(map, k, m) ==
    IF k \in KeysOf(map)
    THEN [i \in DOMAIN map |-> IF map[i].key = k THEN Entry(k, m) ELSE map[i]]
    ELSE Append(map, Entry(k, m))

\* BTreeMap::insert: replaces the entry of k, or adds one at k's place in
\* the key order.
BTreeMapInsert(map, k, m) ==
    IF k \in KeysOf(map)
    THEN [i \in DOMAIN map |-> IF map[i].key = k THEN Entry(k, m) ELSE map[i]]
    ELSE LET lo == SelectSeq(map, LAMBDA e : e.key < k)
             hi == SelectSeq(map, LAMBDA e : e.key > k)
         IN  lo \o <<Entry(k, m)>> \o hi

\* BTreeMap::entry(k).or_insert(m): adds an entry only when k has none.
EntryOrInsert(map, k, m) ==
    IF k \in KeysOf(map) THEN map ELSE BTreeMapInsert(map, k, m)

(***************************************************************************)
(* The buffer operations, as functions of the map.                         *)
(***************************************************************************)
\* A set that never overwrites.
SetIfAbsent(map, k, v) == EntryOrInsert(map, k, Put(v))

\* Transaction::set
SetMutations(map, k, v) == BTreeMapInsert(map, k, Put(v))

\* A delete that removes the entry instead of recording Del.
DeleteRemoves(map, k) == SelectSeq(map, LAMBDA e : e.key # k)

\* Transaction::delete
DeleteMutations(map, k) == BTreeMapInsert(map, k, Del)

\* A lock that overwrites what the buffer holds.
LockOverwrites(map, k) == BTreeMapInsert(map, k, Lock)

\* A lock that releases the Lock a key already has.
LockToggle(map, k) ==
    IF BTreeMapGet(map, k) = Some(Lock)
    THEN SelectSeq(map, LAMBDA e : e.key # k)
    ELSE EntryOrInsert(map, k, Lock)

\* The body of the loop of Transaction::lock_keys, for one key.
LockKey(map, k) == EntryOrInsert(map, k, Lock)

RECURSIVE LockKeysMutations(_, _)
\* Transaction::lock_keys: the loop over the keys, in order.
LockKeysMutations(map, keys) ==
    IF keys = <<>> THEN map
    ELSE LockKeysMutations(LockKey(map, Head(keys)), Tail(keys))

\* A projection under which a Lock reads as an absent value.
GetFromMutationsLockDetermines(map, k) ==
    LET found == BTreeMapGet(map, k)
    IN  IF found = None THEN Undetermined
        ELSE IF found[1].type = "Lock" THEN Determined(None)
        ELSE get_value(found[1])

\* A projection under which a key without a mutation reads as absent.
GetFromMutationsAbsentDetermines(map, k) ==
    LET found == BTreeMapGet(map, k)
    IN  IF found = None THEN Determined(None) ELSE get_value(found[1])

\* Transaction::get_from_mutations
get_from_mutations(map, k) ==
    LET found == BTreeMapGet(map, k)
    IN  IF found = None THEN Undetermined ELSE get_value(found[1])

(***************************************************************************)
(* Results.  Result<T> is a record: Ok(x), or Err(e) with e an error name. *)
(***************************************************************************)
Ok(x) == [kind |-> "Ok", value |-> x, error |-> ""]
Err(e) == [kind |-> "Err", value |-> None, error |-> e]
\* No call has returned yet, or the call in flight has not returned.
NoRet == [kind |-> "None", value |-> None, error |-> ""]
\* The return of set, delete and lock_keys.
Unit == [kind |-> "Unit", value |-> None, error |-> ""]
\* expect() fired while the caller drained the iterator batch_get gave it;
\* the value is what the iterator yielded before.
Panic(x) == [kind |-> "Panic", value |-> x, error |-> "not enough results from snapshot"]

(***************************************************************************)
(* The Snapshot (crate::transaction::snapshot): reads of the store at the  *)
(* start timestamp.  The store is not part of the transaction, so a read   *)
(* answers from some contents s in SnapshotContents, or fails.             *)
(***************************************************************************)
Range(seq) == {seq[i] : i \in DOMAIN seq}

\* What the store may hold at the start timestamp for the keys of a read.
SnapshotContents(keys) == [Range(keys) -> OptionValue]

\* Snapshot::get: the answers a single-key read may give.
SnapshotGet(k) ==
    {Ok(s[k]) : s \in SnapshotContents(<<k>>)} \cup {Err("StorageError")}

\* One result per submitted key, in submission order.
ExactResults(s, keys) == [i \in 1..Len(keys) |-> <<keys[i], s[keys[i]]>>]

Reverse(seq) == [i \in 1..Len(seq) |-> seq[Len(seq) + 1 - i]]

\* The key of the extra result of an over-returning batched read.
FirstKey == CHOOSE k \in Keys : \A other \in Keys : k <= other

\* Snapshot::batch_get: the answers a batched read may give.  Besides the
\* contract's answer (ExactResults) it may fail, and an implementation with
\* a bug may under-return, over-return or mis-order.
SnapshotBatchGet(keys) ==
    {Err("StorageError")}
    \cup {Ok(ExactResults(s, keys)) : s \in SnapshotContents(keys)}
    \cup {Ok(SubSeq(ExactResults(s, keys), 1, Len(keys) - 1)) :
            s \in IF keys = <<>> THEN {} ELSE SnapshotContents(keys)}
    \cup {Ok(Append(ExactResults(s, keys), <<FirstKey, None>>)) :
            s \in SnapshotContents(keys)}
    \cup {Ok(Reverse(ExactResults(s, keys))) : s \in SnapshotContents(keys)}

\* Whether a batched answer keeps the contract of Snapshot::batch_get for
\* the submitted keys: one result per key, in submission order.
KeepsContract(resp, keys) ==
    /\ resp.kind = "Ok"
    /\ Len(resp.value) = Len(keys)
    /\ \A i \in 1..Len(keys) : resp.value[i][1] = keys[i]

(***************************************************************************)
(* batch_get, as functions of the buffer and of the snapshot's answer.     *)
(***************************************************************************)
\* results_in_buffer after the loop of batch_get.
ResultsInBuffer(map, keys) ==
    [i \in 1..Len(keys) |-> <<keys[i], get_from_mutations(map, keys[i])>>]

\* A loop that sends every key of the input to the snapshot.
AllKeysUndetermined(map, keys) == keys

\* undetermined_keys after the loop of batch_get.
UndeterminedKeys(map, keys) ==
    SelectSeq(keys, LAMBDA k : ~get_from_mutations(map, k).determined)

Prepend(x, r) == [r EXCEPT !.value = <<x>> \o r.value]

\* A reassembly that yields the buffer's answers first, then the snapshot's.
TakeDeterminedFirst(results_in_buffer, results_from_snapshot) ==
    LET det == SelectSeq(results_in_buffer, LAMBDA r : r[2].determined)
    IN  Ok([i \in 1..Len(det) |-> <<det[i][1], det[i][2].value>>]
           \o results_from_snapshot)

RECURSIVE Reassemble(_, _)
\* The iterator batch_get returns, drained by the caller: each determined
\* slot yields the buffer's value, each undetermined slot the next result of
\* the snapshot, and expect() panics when the snapshot has none left.
Reassemble(results_in_buffer, results_from_snapshot) ==
    IF results_in_buffer = <<>> THEN Ok(<<>>)
    ELSE LET key == Head(results_in_buffer)[1]
             mutation_value == Head(results_in_buffer)[2]
         IN  IF mutation_value.determined
             THEN Prepend(<<key, mutation_value.value>>,
                          Reassemble(Tail(results_in_buffer), results_from_snapshot))
             ELSE IF results_from_snapshot = <<>>
             THEN Panic(<<>>)
             ELSE Prepend(Head(results_from_snapshot),
                          Reassemble(Tail(results_in_buffer),
                                     Tail(results_from_snapshot)))

(***************************************************************************)
(* commit: the three calls it awaits.  Their bodies are placeholders in    *)
(* the source (unimplemented!()); each is taken to return a Result<()>     *)
(* with the error the design names for it.                                 *)
(***************************************************************************)
PrewriteOutcomes == {Ok(None), Err("ConflictError")}
CommitPrimaryOutcomes == {Ok(None), Err("PrimaryCommitError")}
CommitSecondaryOutcomes == {Ok(None), Err("SecondaryCommitError")}

\* A prewrite that leaves the Lock mutations out.
RpcMutationsWithoutLocks(map) ==
    LET kept == SelectSeq(map, LAMBDA e : e.mutation.type # "Lock")
    IN  [i \in DOMAIN kept |-> <<kept[i].key, kept[i].mutation>>]

\* _rpc_mutations of prewrite: one record per entry of the buffer, carrying
\* its key, in the map's iteration order.
RpcMutations(map) == [i \in DOMAIN map |-> <<map[i].key, map[i].mutation>>]

\* The keys of the records of a prewrite.
RpcKeys(records) == {records[i][1] : i \in DOMAIN records}

\* The primary key of a commit: the key of the first record of the
\* prewrite (None for an empty buffer); the others are the secondaries.
PrimaryKey(records) == IF records = <<>> THEN None ELSE Some(records[1][1])
SecondaryKeys(records) == RpcKeys(records) \ Range(PrimaryKey(records))

(***************************************************************************)
(* What a commit() call has made the store hold for this transaction: the  *)
(* keys it holds prewritten locks on, and the keys whose mutation is       *)
(* committed, that is, visible to a snapshot taken at or after the commit  *)
(* timestamp.                                                              *)
(***************************************************************************)
EmptyStore == [locked |-> {}, committed |-> {}]

\* prewrite is all-or-nothing: Ok leaves a lock on every key of the
\* request, a conflict leaves nothing.
StoreAfterPrewrite(st, res, records) ==
    IF res.kind = "Ok" THEN [st EXCEPT !.locked = RpcKeys(records)] ELSE st

\* commit_primary: Ok commits the primary key.
StoreAfterCommitPrimary(st, res, records) ==
    IF res.kind = "Ok"
    THEN [st EXCEPT !.committed = @ \cup Range(PrimaryKey(records)),
                    !.locked = @ \ Range(PrimaryKey(records))]
    ELSE st

\* commit_secondary: Ok commits every secondary key; an error leaves some
\* of them uncommitted.
SecondaryCommitted(res, records) ==
    IF res.kind = "Ok" THEN {SecondaryKeys(records)}
    ELSE {done \in SUBSET SecondaryKeys(records) :
            done # SecondaryKeys(records) \/ SecondaryKeys(records) = {}}

StoreAfterCommitSecondary(st, done) ==
    [st EXCEPT !.committed = @ \cup done, !.locked = @ \ done]

\* The state of the three requests of one commit() call.
NoRpc == [prewrite |-> NoRet, commit_primary |-> NoRet, commit_secondary |-> NoRet]
Pending == [kind |-> "Pending", value |-> None, error |-> ""]

\* A commit that goes on to commit_primary whatever prewrite returned.
AfterPrewriteUnchecked(res) == "commit_primary"

\* `self.prewrite().await?`: where commit goes when prewrite has returned.
AfterPrewrite(res) == IF res.kind = "Ok" THEN "commit_primary" ELSE "returned"

\* A commit that goes on to commit_secondary whatever commit_primary returned.
AfterCommitPrimaryUnchecked(res) == "commit_secondary"

\* `self.commit_primary().await?`
AfterCommitPrimary(res) == IF res.kind = "Ok" THEN "commit_secondary" ELSE "returned"

\* A commit that propagates the error of commit_secondary.
CommitResultPropagated(res) == res

\* `let _ = self.commit_secondary().await; Ok(())`
CommitResult(res) == Ok(None)

(***************************************************************************)
(* State.                                                                  *)
(***************************************************************************)
VARIABLES
    mutations,      \* Transaction::mutations
    pc,             \* where the caller is: "idle" between calls, inside
                    \* commit(), or "returned" holding a call's result
    call,           \* the last operation called, with its arguments
    ret,            \* what that operation returned (NoRet while in flight)
    snapshotCalls,  \* the snapshot reads that operation issued, with answers
    rpc,            \* the requests the last commit() issued, with results
    rpc_mutations,  \* _rpc_mutations of the last prewrite
    lastWrite,      \* history: the last set or delete applied to each key
    store,          \* what the last commit() made the store hold
    commitEnded     \* history: whether a commit() call has returned

vars == <<mutations, pc, call, ret, snapshotCalls, rpc, rpc_mutations, lastWrite,
          store, commitEnded>>

Call(op, keys, value) == [op |-> op, keys |-> keys, value |-> value]
NoCall == Call("none", <<>>, None)
NoWrite == [op |-> "none", value |-> None]

\* Transaction::new / mock_txn: an empty buffer.
Init ==
    /\ mutations = <<>>
    /\ pc = "idle"
    /\ call = NoCall
    /\ ret = NoRet
    /\ snapshotCalls = <<>>
    /\ rpc = NoRpc
    /\ rpc_mutations = <<>>
    /\ lastWrite = [k \in Keys |-> NoWrite]
    /\ store = EmptyStore
    /\ commitEnded = FALSE

\* An operation that sends a prewrite at once.
EagerPrewrite == /\ pc' = "returned"
                 /\ rpc' = [NoRpc EXCEPT !.prewrite = Ok(None)]
                 /\ UNCHANGED <<rpc_mutations, store, commitEnded>>

\* An operation other than commit returns: it issued no request.
NoCommit == /\ pc' = "returned"
            /\ UNCHANGED <<rpc, rpc_mutations, store, commitEnded>>

\* Transaction::get
get(key) ==
    /\ pc = "idle"
    /\ call' = Call("get", <<key>>, None)
    /\ LET mutation_value == get_from_mutations(mutations, key)
       IN  IF mutation_value.determined
           THEN /\ ret' = Ok(mutation_value.value)
                /\ snapshotCalls' = <<>>
           ELSE \E resp \in SnapshotGet(key) :
                /\ snapshotCalls' = <<[op |-> "get", keys |-> <<key>>, resp |-> resp]>>
                /\ ret' = resp
    /\ NoCommit
    /\ UNCHANGED <<mutations, lastWrite>>

\* Transaction::batch_get, with the caller draining the returned iterator.
batch_get(keys) ==
    /\ pc = "idle"
    /\ call' = Call("batch_get", keys, None)
    /\ LET undetermined_keys == UndeterminedKeys(mutations, keys)
           results_in_buffer == ResultsInBuffer(mutations, keys)
       IN  \E resp \in SnapshotBatchGet(undetermined_keys) :
             /\ snapshotCalls' = <<[op |-> "batch_get", keys |-> undetermined_keys,
                                    resp |-> resp]>>
             /\ ret' = IF resp.kind = "Err" THEN resp
                       ELSE Reassemble(results_in_buffer, resp.value)
    /\ NoCommit
    /\ UNCHANGED <<mutations, lastWrite>>

\* Transaction::set
set(key, value) ==
    /\ pc = "idle"
    /\ call' = Call("set", <<key>>, Some(value))
    /\ mutations' = SetMutations(mutations, key, value)
    /\ lastWrite' = [lastWrite EXCEPT ![key] = [op |-> "set", value |-> Some(value)]]
    /\ ret' = Unit
    /\ snapshotCalls' = <<>>
    /\ NoCommit

\* Transaction::delete
delete(key) ==
    /\ pc = "idle"
    /\ call' = Call("delete", <<key>>, None)
    /\ mutations' = DeleteMutations(mutations, key)
    /\ lastWrite' = [lastWrite EXCEPT ![key] = [op |-> "delete", value |-> None]]
    /\ ret' = Unit
    /\ snapshotCalls' = <<>>
    /\ NoCommit

\* Transaction::lock_keys
lock_keys(keys) ==
    /\ pc = "idle"
    /\ call' = Call("lock_keys", keys, None)
    /\ mutations' = LockKeysMutations(mutations, keys)
    /\ ret' = Unit
    /\ snapshotCalls' = <<>>
    /\ NoCommit
    /\ UNCHANGED lastWrite

\* Transaction::commit is called: it calls prewrite, which builds
\* _rpc_mutations and sends the request.
commit ==
    /\ pc = "idle"
    /\ call' = Call("commit", <<>>, None)
    /\ ret' = NoRet
    /\ snapshotCalls' = <<>>
    /\ rpc_mutations' = RpcMutations(mutations)
    /\ rpc' = [NoRpc EXCEPT !.prewrite = Pending]
    /\ pc' = "prewrite"
    /\ UNCHANGED <<mutations, lastWrite, store, commitEnded>>

\* prewrite returns; commit returns its error, or calls commit_primary.
prewrite(res) ==
    /\ pc = "prewrite"
    /\ pc' = AfterPrewrite(res)
    /\ rpc' = [rpc EXCEPT !.prewrite = res,
                          !.commit_primary = IF pc' = "returned" THEN NoRet ELSE Pending]
    /\ ret' = IF pc' = "returned" THEN res ELSE ret
    /\ store' = StoreAfterPrewrite(store, res, rpc_mutations)
    /\ commitEnded' = (commitEnded \/ pc' = "returned")
    /\ UNCHANGED <<mutations, call, snapshotCalls, rpc_mutations, lastWrite>>

\* commit_primary returns; commit returns its error, or calls commit_secondary.
commit_primary(res) ==
    /\ pc = "commit_primary"
    /\ pc' = AfterCommitPrimary(res)
    /\ rpc' = [rpc EXCEPT !.commit_primary = res,
                          !.commit_secondary = IF pc' = "returned" THEN NoRet ELSE Pending]
    /\ ret' = IF pc' = "returned" THEN res ELSE ret
    /\ store' = StoreAfterCommitPrimary(store, res, rpc_mutations)
    /\ commitEnded' = (commitEnded \/ pc' = "returned")
    /\ UNCHANGED <<mutations, call, snapshotCalls, rpc_mutations, lastWrite>>

\* commit_secondary returns to commit, which is awaiting it.
commit_secondary(res) ==
    /\ pc = "commit_secondary"
    /\ pc' = "return"
    /\ rpc' = [rpc EXCEPT !.commit_secondary = res]
    /\ \E done \in SecondaryCommitted(res, rpc_mutations) :
         store' = StoreAfterCommitSecondary(store, done)
    /\ UNCHANGED <<mutations, call, ret, snapshotCalls, rpc_mutations, lastWrite,
                   commitEnded>>

\* commit returns after commit_secondary.
commit_return ==
    /\ pc = "return"
    /\ pc' = "returned"
    /\ ret' = CommitResult(rpc.commit_secondary)
    /\ commitEnded' = TRUE
    /\ UNCHANGED <<mutations, call, snapshotCalls, rpc, rpc_mutations, lastWrite,
                   store>>

\* The caller is done with the result of the call and goes on to its next
\* call: the borrow of the transaction that the call held has ended.
next_call ==
    /\ pc = "returned"
    /\ pc' = "idle"
    /\ call' = NoCall
    /\ ret' = NoRet
    /\ snapshotCalls' = <<>>
    /\ rpc' = NoRpc
    /\ rpc_mutations' = <<>>
    /\ store' = EmptyStore
    /\ UNCHANGED <<mutations, lastWrite, commitEnded>>

Next ==
    \/ \E key \in Keys : get(key)
    \/ \E keys \in KeySeqs : batch_get(keys)
    \/ \E key \in Keys, value \in Values : set(key, value)
    \/ \E key \in Keys : delete(key)
    \/ \E keys \in KeySeqs : lock_keys(keys)
    \/ commit
    \/ \E res \in PrewriteOutcomes : prewrite(res)
    \/ \E res \in CommitPrimaryOutcomes : commit_primary(res)
    \/ \E res \in CommitSecondaryOutcomes : commit_secondary(res)
    \/ commit_return
    \/ next_call

Spec == Init /\ [][Next]_vars

(***************************************************************************)
(* Properties.                                                             *)
(***************************************************************************)
\* The key of the last call, for the single-key operations.
CallKey == call.keys[1]

\* A get has returned.
GetReturned == pc = "returned" /\ call.op = "get"

\* The get that has returned read the snapshot once, with a single-key read
\* of its key, and returned what the snapshot answered.
ReadThroughSnapshot ==
    /\ Len(snapshotCalls) = 1
    /\ snapshotCalls[1].op = "get"
    /\ snapshotCalls[1].keys = <<CallKey>>
    /\ ret = snapshotCalls[1].resp

\* C1: read-your-own-writes: when the last set or delete applied to a key
\* is set(k, v), get(k) returns Some(v) and issues no snapshot read.
C1_ReadYourOwnWrites ==
    (GetReturned /\ lastWrite[CallKey].op = "set")
        => /\ ret = Ok(lastWrite[CallKey].value)
           /\ ret.value # None
           /\ snapshotCalls = <<>>

\* A get of a key whose last write is a set has returned, after the key was
\* set to the value 2.
C1_Witness ==
    /\ GetReturned
    /\ lastWrite[CallKey] = [op |-> "set", value |-> Some(2)]

\* C2: when the last set or delete applied to a key is delete(k), get(k)
\* returns None and issues no snapshot read, whatever the snapshot holds.
C2_DeleteReadsNone ==
    (GetReturned /\ lastWrite[CallKey].op = "delete")
        => /\ ret = Ok(None)
           /\ snapshotCalls = <<>>

C2_Witness == GetReturned /\ lastWrite[CallKey].op = "delete"

\* C3: for a key with no buffered mutation, get(k) returns exactly what the
\* snapshot answers for k, obtained by one single-key snapshot read.
C3_UnbufferedReadsSnapshot ==
    (GetReturned /\ CallKey \notin KeysOf(mutations)) => ReadThroughSnapshot

\* A get of a key without a mutation returned a value of the snapshot while
\* another key has a buffered Put.
C3_Witness ==
    /\ GetReturned
    /\ CallKey \notin KeysOf(mutations)
    /\ ret = Ok(Some(1))
    /\ \E i \in DOMAIN mutations : mutations[i].mutation.type = "Put"

\* A batch_get has returned (its iterator drained).
BatchGetReturned == pc = "returned" /\ call.op = "batch_get"

\* Whether the buffer holds a Put or a Delete for k.
HasWrite(k) ==
    \E i \in DOMAIN mutations :
        mutations[i].key = k /\ mutations[i].mutation.type \in {"Put", "Del"}

\* The number of keys among the first i of the list that have no Put or
\* Delete: the place of slot i among the keys sent to the snapshot.
PlaceInSnapshotRead(keys, i) ==
    Cardinality({j \in 1..i : ~HasWrite(keys[j])})

\* C4: given a snapshot answer with one result per submitted key in
\* submission order, batch_get yields one element per input key, in input
\* order, duplicates included; a slot whose key has a Put or Delete carries
\* the buffer's value, every other slot the snapshot's result for it.
C4_BatchGetOrder ==
    (BatchGetReturned
        /\ KeepsContract(snapshotCalls[1].resp, snapshotCalls[1].keys))
    => /\ ret.kind = "Ok"
       /\ Len(ret.value) = Len(call.keys)
       /\ \A i \in 1..Len(call.keys) :
            /\ ret.value[i][1] = call.keys[i]
            /\ IF HasWrite(call.keys[i])
               THEN ret.value[i][2] = lastWrite[call.keys[i]].value
               ELSE ret.value[i] =
                      snapshotCalls[1].resp.value[PlaceInSnapshotRead(call.keys, i)]

\* A batch_get of an undetermined key followed by a buffered one returned,
\* the snapshot holding a value for the first.
C4_Witness ==
    /\ BatchGetReturned
    /\ Len(call.keys) = 2
    /\ ~HasWrite(call.keys[1])
    /\ HasWrite(call.keys[2])
    /\ ret.kind = "Ok"
    /\ ret.value[1][2] # None

\* A lock_keys step.
LockKeysStep == pc = "idle" /\ pc' = "returned" /\ call'.op = "lock_keys"

\* C5: lock_keys is non-destructive: a key of the list that has a buffered
\* Put or Delete keeps it unchanged, and the only entries lock_keys changes
\* are those of listed keys without a mutation, which become Lock.
C5_LockNonDestructive ==
    [][LockKeysStep =>
        \A k \in Keys :
            /\ (k \in Range(call'.keys) /\ HasWrite(k))
                 => BTreeMapGet(mutations', k) = BTreeMapGet(mutations, k)
            /\ BTreeMapGet(mutations', k) # BTreeMapGet(mutations, k)
                 => /\ k \in Range(call'.keys)
                    /\ BTreeMapGet(mutations, k) = None
                    /\ BTreeMapGet(mutations', k) = Some(Lock)
            /\ (k \in Range(call'.keys) /\ BTreeMapGet(mutations, k) = None)
                 => BTreeMapGet(mutations', k) = Some(Lock)]_vars

\* lock_keys has returned for a list holding a key with a buffered Put and a
\* key that had no mutation.
C5_Witness ==
    /\ pc = "returned"
    /\ call.op = "lock_keys"
    /\ \E k \in Range(call.keys) :
         /\ lastWrite[k].op = "set"
         /\ BTreeMapGet(mutations, k) = Some([type |-> "Put", value |-> lastWrite[k].value])
    /\ \E k \in Range(call.keys) :
         /\ lastWrite[k].op = "none"
         /\ BTreeMapGet(mutations, k) = Some(Lock)

\* C6: a Lock never determines a read: get(k) of a key whose mutation is
\* Lock reads the snapshot once and returns its answer, as for a key without
\* a mutation.
C6_LockReadsSnapshot ==
    (GetReturned /\ BTreeMapGet(mutations, CallKey) = Some(Lock))
        => ReadThroughSnapshot

\* A get of a locked key returned a value of the snapshot.
C6_Witness ==
    /\ GetReturned
    /\ BTreeMapGet(mutations, CallKey) = Some(Lock)
    /\ ret = Ok(Some(1))

\* The buffer holds at most one mutation per key.
OneMutationPerKey == Cardinality(KeysOf(mutations)) = Len(mutations)

\* The mutation of every key that was set or deleted is that of its last
\* set or delete.
LastWriterWins ==
    \A k \in Keys :
        /\ lastWrite[k].op = "set"
             => \A i \in DOMAIN mutations :
                  mutations[i].key = k
                    => mutations[i].mutation = [type |-> "Put", value |-> lastWrite[k].value]
        /\ lastWrite[k].op = "delete"
             => \A i \in DOMAIN mutations :
                  mutations[i].key = k => mutations[i].mutation = Del
        /\ lastWrite[k].op # "none" => k \in KeysOf(mutations)

\* A set or delete step.
WriteStep == pc = "idle" /\ pc' = "returned" /\ call'.op \in {"set", "delete"}

\* C7: set and delete replace whatever mutation the buffer holds for their
\* key: the buffer always holds at most one mutation per key, that of the
\* key's last set or delete, and a set or delete leaves the mutations of
\* all other keys unchanged.
C7_LastWriterWins ==
    /\ [](OneMutationPerKey /\ LastWriterWins)
    /\ [][WriteStep =>
            \A k \in Keys \ {call'.keys[1]} :
                BTreeMapGet(mutations', k) = BTreeMapGet(mutations, k)]_vars

\* set(k, 2) has returned, the buffer holding Put(2) for k, a Lock for a
\* second key and a Delete for a third.
C7_Witness ==
    /\ pc = "returned"
    /\ call.op = "set"
    /\ call.value = Some(2)
    /\ BTreeMapGet(mutations, CallKey) = Some([type |-> "Put", value |-> Some(2)])
    /\ \E k \in Keys \ {CallKey} : BTreeMapGet(mutations, k) = Some(Lock)
    /\ \E k \in Keys \ {CallKey} : BTreeMapGet(mutations, k) = Some(Del)

\* C8: the phases of commit are ordered: commit_primary is started only
\* after prewrite has returned Ok, commit_secondary only after
\* commit_primary has returned Ok.
C8_PhasesOrdered ==
    /\ rpc.commit_primary.kind # "None" => rpc.prewrite.kind = "Ok"
    /\ rpc.commit_secondary.kind # "None" => rpc.commit_primary.kind = "Ok"
    /\ pc = "commit_primary" => rpc.prewrite.kind = "Ok"
    /\ pc \in {"commit_secondary", "return"} => rpc.commit_primary.kind = "Ok"

\* commit_secondary has been started, for a buffer of at least two mutations.
C8_Witness ==
    /\ pc = "commit_secondary"
    /\ rpc.commit_secondary.kind = "Pending"
    /\ Len(rpc_mutations) >= 2

\* commit has returned.
CommitReturned == pc = "returned" /\ call.op = "commit"

\* C9: the result of commit depends only on prewrite and commit_primary:
\* when both returned Ok, commit returns Ok whether commit_secondary
\* returned Ok or an error, and the error of commit_secondary is never
\* what commit returns.
C9_SecondaryResultDiscarded ==
    CommitReturned
        => /\ (rpc.prewrite.kind = "Ok" /\ rpc.commit_primary.kind = "Ok")
                => ret = Ok(None)
           /\ ret.error # "SecondaryCommitError"

\* commit returned Ok although commit_secondary returned an error.
C9_Witness ==
    /\ CommitReturned
    /\ rpc.commit_secondary = Err("SecondaryCommitError")
    /\ ret = Ok(None)

\* C10: commit returns once the primary key is committed, without waiting
\* for the secondary commits: while commit_secondary is in flight for a
\* transaction that has secondary keys, the return of commit is enabled.
C10_ReturnsBeforeSecondary ==
    (call.op = "commit"
        /\ rpc.commit_primary.kind = "Ok"
        /\ rpc.commit_secondary.kind = "Pending"
        /\ Len(rpc_mutations) > 1)
    => ENABLED commit_return

\* A commit() call is in flight or has returned.
InCommit == call.op = "commit"

C12_PrimaryFailureSurfaces ==
    (InCommit /\ rpc.commit_primary.kind = "Err")
        => /\ rpc.prewrite.kind = "Ok"
           /\ pc = "returned"
           /\ ret.kind = "Err"
           /\ ret = rpc.commit_primary
           /\ ret \notin PrewriteOutcomes
           /\ rpc.commit_secondary = NoRet

\* commit returned the error of commit_primary, the store holding the
\* prewritten locks of two keys or more.
C12_Witness ==
    /\ CommitReturned
    /\ ret = Err("PrimaryCommitError")
    /\ Cardinality(store.locked) >= 2

\* C13: atomic visibility: a mutation of the transaction is committed in
\* the store only if commit_primary has returned Ok and the primary key is
\* committed; no secondary is committed while the primary is not.
C13_AtomicVisibility ==
    store.committed # {}
        => /\ rpc.commit_primary.kind = "Ok"
           /\ Range(PrimaryKey(rpc_mutations)) \subseteq store.committed

\* The primary key and one secondary are committed, another secondary is
\* left uncommitted by a failed commit_secondary.
C13_Witness ==
    /\ rpc.commit_secondary.kind = "Err"
    /\ Cardinality(store.committed) = 2
    /\ store.locked # {}

\* C14: get, batch_get, set, delete and lock_keys create no state in the
\* store: they issue no prewrite or commit request and leave the store
\* without lock or write of the transaction; set, delete and lock_keys
\* issue no request at all, and the reads issue snapshot reads only.
C14_NoStoreStateBeforeCommit ==
    ~InCommit
        => /\ rpc = NoRpc
           /\ rpc_mutations = <<>>
           /\ store = EmptyStore
           /\ call.op \in {"set", "delete", "lock_keys"} => snapshotCalls = <<>>
           /\ \A i \in DOMAIN snapshotCalls :
                snapshotCalls[i].op \in {"get", "batch_get"}

\* lock_keys has returned in a transaction that never called commit and
\* whose buffer holds a Put, a Delete and a Lock.
C14_Witness ==
    /\ ~commitEnded
    /\ pc = "returned"
    /\ call.op = "lock_keys"
    /\ {mutations[i].mutation.type : i \in DOMAIN mutations} = {"Put", "Del", "Lock"}

\* C15: each batch_get issues exactly one batched snapshot read, whose key
\* list is the input keys without a Put or Delete in the buffer (Lock or no
\* mutation), in input order with duplicates kept; no key with a Put or
\* Delete is sent to the snapshot.
C15_OneBatchedRead ==
    BatchGetReturned
        => /\ Len(snapshotCalls) = 1
           /\ snapshotCalls[1].op = "batch_get"
           /\ snapshotCalls[1].keys = SelectSeq(call.keys, LAMBDA k : ~HasWrite(k))
           /\ \A k \in Range(snapshotCalls[1].keys) : lastWrite[k].op = "none"

\* A batch_get of the same locked key twice has sent it twice, while
\* another key has a Put.
C15_Witness ==
    /\ BatchGetReturned
    /\ Len(call.keys) = 2
    /\ call.keys[1] = call.keys[2]
    /\ BTreeMapGet(mutations, call.keys[1]) = Some(Lock)
    /\ Len(snapshotCalls[1].keys) = 2
    /\ \E k \in Keys : HasWrite(k)

\* C16: the mutation set of prewrite holds exactly one record for every
\* key with a buffered mutation at commit time, Lock included, each with
\* its key and its mutation, in ascending key order.
C16_PrewriteCoversBuffer ==
    InCommit
        => /\ RpcKeys(rpc_mutations) = KeysOf(mutations)
           /\ Len(rpc_mutations) = Cardinality(KeysOf(mutations))
           /\ \A i \in DOMAIN rpc_mutations :
                Some(rpc_mutations[i][2]) = BTreeMapGet(mutations, rpc_mutations[i][1])
           /\ \A i, j \in DOMAIN rpc_mutations :
                i < j => rpc_mutations[i][1] < rpc_mutations[j][1]

\* prewrite is in flight with a Put, a Delete and a Lock in its records.
C16_Witness ==
    /\ pc = "prewrite"
    /\ {rpc_mutations[i][2].type : i \in DOMAIN rpc_mutations} = {"Put", "Del", "Lock"}

\* The smallest key of a non-empty set of keys.
MinKey(keys) == CHOOSE k \in keys : \A other \in keys : k <= other

C18_MiscountFailsFast ==
    (BatchGetReturned
        /\ snapshotCalls[1].resp.kind = "Ok"
        /\ Len(snapshotCalls[1].resp.value) # Len(snapshotCalls[1].keys))
    => ret.kind = "Panic"

\* C19: commit is terminal: once a commit() call has returned, no step
\* starts the commit protocol (prewrite) again.
C19_CommitTerminal ==
    [][commitEnded => ~(pc = "idle" /\ pc' = "prewrite")]_vars

\* Whether a map holds a Put or a Delete for k.
WriteIn(map, k) ==
    \E i \in DOMAIN map : map[i].key = k /\ map[i].mutation.type \in {"Put", "Del"}

\* C20: lock_keys is invisible to reads and idempotent: a lock_keys step
\* leaves what the buffer answers to get and batch_get unchanged for every
\* key and key list, and applying it again leaves the buffer as it is; no
\* step removes a key from the buffer, and a key with a Put or Delete keeps
\* a Put or Delete.
C20_LockInvisibleIdempotent ==
    /\ [][LockKeysStep =>
            /\ \A k \in Keys :
                 get_from_mutations(mutations', k) = get_from_mutations(mutations, k)
            /\ \A ks \in KeySeqs :
                 /\ ResultsInBuffer(mutations', ks) = ResultsInBuffer(mutations, ks)
                 /\ UndeterminedKeys(mutations', ks) = UndeterminedKeys(mutations, ks)
            /\ LockKeysMutations(mutations', call'.keys) = mutations']_vars
    /\ [][\A k \in Keys :
            /\ k \in KeysOf(mutations) => k \in KeysOf(mutations')
            /\ WriteIn(mutations, k) => WriteIn(mutations', k)]_vars

\* lock_keys has returned for a list naming the same key twice, a key with a
\* Put and the buffer holding a Lock.
C20_Witness ==
    /\ pc = "returned"
    /\ call.op = "lock_keys"
    /\ Len(call.keys) = 2
    /\ \/ call.keys[1] = call.keys[2]
       \/ HasWrite(call.keys[1])
    /\ \E i \in DOMAIN mutations : mutations[i].mutation = Lock
    /\ \E k \in Keys : HasWrite(k)

====
